---- MODULE Spec2Model ----
(***************************************************************************)
(* A model of the aggregation core of auto-osint: the scan orchestrator    *)
(* (core/scanner.py) and the profile store with its merge engine, summary  *)
(* generator and name derivation (core/profile_manager.py).                *)
(*                                                                         *)
(* Python values are modelled as tagged trees:                             *)
(*   [kind |-> "null", val |-> 0]            None                          *)
(*   [kind |-> "num",  val |-> n]            int / float                   *)
(*   [kind |-> "str",  val |-> <<c1,..>>]    str, a sequence of symbols    *)
(*   [kind |-> "list", val |-> <<t1,..>>]    list                          *)
(*   [kind |-> "dict", val |-> f]            dict, f a function on keys    *)
(* A symbol of a string is a separator ("@", " ", "\t") or a chunk that    *)
(* contains no separator.  Exceptions are modelled by the value Raise(e).  *)
(***************************************************************************)
EXTENDS Integers, Sequences, FiniteSets, TLC

VARIABLES files, clock, ret, saves, scan, call

vars == <<files, clock, ret, saves, scan, call>>

----------------------------------------------------------------------------
(* Python values *)

None == [kind |-> "null", val |-> 0]

Num(n) == [kind |-> "num", val |-> n]

Str(s) == [kind |-> "str", val |-> s]

S(a) == Str(<<a>>)

List(s) == [kind |-> "list", val |-> s]

Dict(f) == [kind |-> "dict", val |-> f]

EmptyMap == [k \in {} |-> None]

EmptyDict == Dict(EmptyMap)

Raise(e) == [kind |-> "raise", val |-> e]

IsRaise(v) == v.kind = "raise"

IsDict(v) == v.kind = "dict"

IsList(v) == v.kind = "list"

\* bool(v): the truth value Python gives a value in `if v:`
Truthy(v) ==
  CASE v.kind = "null" -> FALSE
    [] v.kind = "num"  -> v.val # 0
    [] v.kind = "str"  -> v.val # <<>>
    [] v.kind = "list" -> v.val # <<>>
    [] v.kind = "dict" -> DOMAIN v.val # {}
    [] OTHER           -> TRUE

\* d.get(k, default) on a dict d
Get(d, k, default) == IF k \in DOMAIN d.val THEN d.val[k] ELSE default

\* d[k] = v on a copy of the dict d
Put(d, k, v) == Dict([x \in DOMAIN d.val \cup {k} |-> IF x = k THEN v ELSE d.val[x]])

\* the keys of a mapping in the one order the model iterates them in
RECURSIVE KeyOrder(_)
KeyOrder(K) ==
  IF K = {} THEN <<>>
  ELSE LET k == CHOOSE x \in K : TRUE IN <<k>> \o KeyOrder(K \ {k})

----------------------------------------------------------------------------
(* json.dump / json.load: a profile is written as a sequence of tokens and *)
(* read back by a recursive-descent parser.                                *)

Tok(t, v) == [t |-> t, v |-> v]

P(t) == Tok(t, 0)

RECURSIVE json_dumps(_), DumpItems(_), DumpMembers(_, _)
json_dumps(obj) ==
  CASE obj.kind = "null" -> <<P("null")>>
    [] obj.kind = "num"  -> <<Tok("num", obj.val)>>
    [] obj.kind = "str"  -> <<Tok("str", obj.val)>>
    [] obj.kind = "list" -> <<P("[")>> \o DumpItems(obj.val) \o <<P("]")>>
    [] obj.kind = "dict" ->
         <<P("{")>> \o DumpMembers(obj.val, KeyOrder(DOMAIN obj.val)) \o <<P("}")>>

DumpItems(items) ==
  IF items = <<>> THEN <<>>
  ELSE IF Len(items) = 1 THEN json_dumps(items[1])
  ELSE json_dumps(items[1]) \o <<P(",")>> \o DumpItems(Tail(items))

DumpMembers(f, keys) ==
  IF keys = <<>> THEN <<>>
  ELSE LET m == <<Tok("str", <<keys[1]>>), P(":")>> \o json_dumps(f[keys[1]])
       IN  IF Len(keys) = 1 THEN m ELSE m \o <<P(",")>> \o DumpMembers(f, Tail(keys))

ParseOk(v, next) == [ok |-> TRUE, val |-> v, next |-> next]

ParseFail == [ok |-> FALSE, val |-> None, next |-> 0]

TokAt(toks, i) == IF i <= Len(toks) THEN toks[i].t ELSE "eof"

RECURSIVE ParseValue(_, _), ParseItems(_, _, _), ParseMembers(_, _, _)
ParseValue(toks, i) ==
  LET t == TokAt(toks, i) IN
  CASE t = "null" -> ParseOk(None, i + 1)
    [] t = "num"  -> ParseOk(Num(toks[i].v), i + 1)
    [] t = "str"  -> ParseOk(Str(toks[i].v), i + 1)
    [] t = "["    -> IF TokAt(toks, i + 1) = "]" THEN ParseOk(List(<<>>), i + 2)
                     ELSE ParseItems(toks, i + 1, <<>>)
    [] t = "{"    -> IF TokAt(toks, i + 1) = "}" THEN ParseOk(EmptyDict, i + 2)
                     ELSE ParseMembers(toks, i + 1, EmptyDict)
    [] OTHER      -> ParseFail

ParseItems(toks, i, acc) ==
  LET r == ParseValue(toks, i) IN
  IF ~r.ok THEN ParseFail
  ELSE IF TokAt(toks, r.next) = "," THEN ParseItems(toks, r.next + 1, Append(acc, r.val))
  ELSE IF TokAt(toks, r.next) = "]" THEN ParseOk(List(Append(acc, r.val)), r.next + 1)
  ELSE ParseFail

ParseMembers(toks, i, acc) ==
  IF TokAt(toks, i) # "str" \/ TokAt(toks, i + 1) # ":" \/ Len(toks[i].v) # 1
  THEN ParseFail
  ELSE LET r == ParseValue(toks, i + 2) IN
       IF ~r.ok THEN ParseFail
       ELSE LET acc2 == Put(acc, toks[i].v[1], r.val) IN
            IF TokAt(toks, r.next) = "," THEN ParseMembers(toks, r.next + 1, acc2)
            ELSE IF TokAt(toks, r.next) = "}" THEN ParseOk(acc2, r.next + 1)
            ELSE ParseFail

json_loads(toks) ==
  LET r == ParseValue(toks, 1) IN
  IF r.ok /\ r.next = Len(toks) + 1 THEN r.val ELSE Raise("JSONDecodeError")

\* a run of bytes that is not valid in the encoding the file is read with
Undecodable == P("0xff")

\* json.load(f) on a file opened in text mode: f.read() decodes the content,
\* and json.loads parses the text.
json_load(content) ==
  IF \E i \in 1..Len(content) : content[i].t = Undecodable.t
  THEN Raise("UnicodeDecodeError")
  ELSE json_loads(content)

----------------------------------------------------------------------------
(* Merge engine: the _merge methods of ProfileManager *)

\* Mutant: dict.update - an overlapping key takes the new value without
\* recursion or concatenation.
merge_update_shallow(existing, new) ==
  IF IsDict(existing) /\ IsDict(new)
  THEN Dict([key \in DOMAIN existing.val \cup DOMAIN new.val |->
              IF key \in DOMAIN new.val THEN new.val[key] ELSE existing.val[key]])
  ELSE IF IsList(existing) /\ IsList(new)
  THEN List(existing.val \o new.val)
  ELSE new

\* Mutant: the new value always wins, lists included.
merge_new_wins(existing, new) == new

RECURSIVE _merge_data_structures(_, _)
_merge_data_structures(existing, new) ==
  IF IsDict(existing) /\ IsDict(new)
  THEN Dict([key \in DOMAIN existing.val \cup DOMAIN new.val |->
              IF key \in DOMAIN new.val
              THEN IF key \in DOMAIN existing.val
                   THEN _merge_data_structures(existing.val[key], new.val[key])
                   ELSE new.val[key]
              ELSE existing.val[key]])
  ELSE IF IsList(existing) /\ IsList(new)
  THEN List(existing.val \o new.val)
  ELSE new

\* Mutant: the entry of the new session replaces the stored one.
merge_search_data_takes_new(existing, new) == new

\* Both arguments are dicts: the caller checks it.
_merge_search_data(existing, new) ==
  LET m1 == IF "data" \in DOMAIN new.val /\ "data" \in DOMAIN existing.val
            THEN Put(existing, "data",
                     _merge_data_structures(existing.val["data"], new.val["data"]))
            ELSE existing
      m2 == IF "scan_time" \in DOMAIN new.val
            THEN Put(m1, "scan_time", new.val["scan_time"]) ELSE m1
  IN  IF "status" \in DOMAIN new.val THEN Put(m2, "status", new.val["status"]) ELSE m2

\* One iteration of the loop of _merge_scan_results for search_type, on the
\* copy `merged`.  A "results" value of merged that is no dict cannot take
\* merged["results"][search_type] = ..., and Python raises TypeError.
MergeStep(merged, search_type, new_data) ==
  LET results == Get(merged, "results", EmptyDict) IN
  IF ~IsDict(results) THEN Raise("TypeError")
  ELSE IF search_type \notin DOMAIN results.val
  THEN Put(merged, "results", Put(results, search_type, new_data))
  ELSE LET existing_data == results.val[search_type] IN
       IF IsDict(existing_data) /\ IsDict(new_data)
       THEN Put(merged, "results",
                Put(results, search_type, _merge_search_data(existing_data, new_data)))
       ELSE merged

RECURSIVE MergeLoop(_, _, _)
MergeLoop(merged, new_results, keys) ==
  IF keys = <<>> \/ IsRaise(merged) THEN merged
  ELSE MergeLoop(MergeStep(merged, keys[1], new_results[keys[1]]), new_results, Tail(keys))

\* Mutant: the new session replaces the stored data.
merge_scan_results_replace(existing, new) == new

\* existing is the current_data of a stored profile and new the session being
\* saved; .get and .items() on a value that is no dict raise AttributeError.
_merge_scan_results(existing, new) ==
  IF ~IsDict(existing) \/ ~IsDict(new) THEN Raise("AttributeError")
  ELSE LET new_results == Get(new, "results", EmptyDict) IN
       IF ~IsDict(new_results) THEN Raise("AttributeError")
       ELSE MergeLoop(existing, new_results.val, KeyOrder(DOMAIN new_results.val))

\* The object passed as `existing` once _merge_scan_results has returned.
\* merged = existing.copy() is a shallow copy: existing["results"], when
\* there is one, is the very dict the loop assigns into, so it ends as
\* merged["results"]; without one, setdefault puts the new dict into the
\* copy alone.
existing_after_merge_scan_results(existing, new) ==
  LET merged == _merge_scan_results(existing, new) IN
  IF IsRaise(merged) \/ "results" \notin DOMAIN existing.val THEN existing
  ELSE Put(existing, "results", merged.val["results"])

\* The object passed as `existing` once _merge_data_structures has returned:
\* every level assigns into its own copy and lists are joined with +, which
\* builds a new list.
existing_after_merge_data_structures(existing, new) == existing

----------------------------------------------------------------------------
(* Summary generator (ProfileManager._generate_summary) *)

SearchTypes == {"social", "breach", "public", "domain", "images", "geolocation"}

\* search type -> the summary field it sets
SummaryField ==
  [social |-> "social_media_profiles", breach |-> "breaches_found",
   public |-> "public_records", domain |-> "domains_checked",
   images |-> "images_found", geolocation |-> "locations_found"]

\* search type -> the key of data["summary"] its count is read from
CountKey ==
  [social |-> "found_profiles", breach |-> "total_breaches",
   public |-> "total_records", domain |-> "domains_checked",
   images |-> "images_found", geolocation |-> "total_locations"]

SummaryInit ==
  Dict([f \in {"total_scans", "social_media_profiles", "breaches_found", "public_records",
               "domains_checked", "images_found", "locations_found"} |-> Num(0)])

\* Mutant: the count is read from the top level of data.
count_of_top_level(data, key) ==
  IF ~IsDict(data) THEN Raise("AttributeError") ELSE Get(data, key, Num(0))

\* data.get("summary", {}).get(key, 0); .get on a value that is no dict raises
CountOf(data, key) ==
  IF ~IsDict(data) THEN Raise("AttributeError")
  ELSE LET s == Get(data, "summary", EmptyDict) IN
       IF ~IsDict(s) THEN Raise("AttributeError") ELSE Get(s, key, Num(0))

\* Mutant: the status of the entry is not looked at.
summary_step_any_status(summary, search_type, scan_data) ==
  IF IsDict(scan_data)
  THEN LET counted == Put(summary, "total_scans", Num(summary.val["total_scans"].val + 1))
           data == Get(scan_data, "data", EmptyDict)
       IN  IF search_type \in SearchTypes
           THEN LET n == CountOf(data, CountKey[search_type]) IN
                IF IsRaise(n) THEN n ELSE Put(counted, SummaryField[search_type], n)
           ELSE counted
  ELSE summary

\* Mutant: a completed entry of an unknown search type gets a field of its own.
summary_step_counts_unknown(summary, search_type, scan_data) ==
  IF IsDict(scan_data) /\ Get(scan_data, "status", None) = S("completed")
  THEN LET counted == Put(summary, "total_scans", Num(summary.val["total_scans"].val + 1))
           data == Get(scan_data, "data", EmptyDict)
       IN  IF search_type \in SearchTypes
           THEN LET n == CountOf(data, CountKey[search_type]) IN
                IF IsRaise(n) THEN n ELSE Put(counted, SummaryField[search_type], n)
           ELSE Put(counted, search_type, Num(1))
  ELSE summary

\* The body of the for loop of _generate_summary for one item.
SummaryStep(summary, search_type, scan_data) ==
  IF IsDict(scan_data) /\ Get(scan_data, "status", None) = S("completed")
  THEN LET counted == Put(summary, "total_scans", Num(summary.val["total_scans"].val + 1))
           data == Get(scan_data, "data", EmptyDict)
       IN  IF search_type \in SearchTypes
           THEN LET n == CountOf(data, CountKey[search_type]) IN
                IF IsRaise(n) THEN n ELSE Put(counted, SummaryField[search_type], n)
           ELSE counted
  ELSE summary

RECURSIVE SummaryLoop(_, _, _)
SummaryLoop(summary, results, keys) ==
  IF keys = <<>> \/ IsRaise(summary) THEN summary
  ELSE SummaryLoop(SummaryStep(summary, keys[1], results[keys[1]]), results, Tail(keys))

_generate_summary(scan_results) ==
  IF ~IsDict(scan_results) THEN Raise("AttributeError")
  ELSE LET results == Get(scan_results, "results", EmptyDict) IN
       IF ~IsDict(results) THEN Raise("AttributeError")
       ELSE SummaryLoop(SummaryInit, results.val, KeyOrder(DOMAIN results.val))

\* Mutant: the merged profile is built on the new profile_data.
merge_profiles_on_new(existing, new) ==
  LET scan_entry == Dict([timestamp |-> new.val["last_updated"],
                          scan_results |-> new.val["current_data"]])
      m2 == Put(new, "scan_history",
                List(Append(existing.val["scan_history"].val, scan_entry)))
      current == _merge_scan_results(Get(existing, "current_data", EmptyDict),
                                     new.val["current_data"])
  IN  Put(Put(m2, "current_data", current), "summary", _generate_summary(current))

\* Mutant: the counters of the session are added to the stored ones.
merge_profiles_adds_summaries(existing, new) ==
  LET scan_entry == Dict([timestamp |-> new.val["last_updated"],
                          scan_results |-> new.val["current_data"]])
      m1 == Put(existing, "last_updated", new.val["last_updated"])
      m2 == Put(m1, "scan_history",
                List(Append(existing.val["scan_history"].val, scan_entry)))
      current == _merge_scan_results(Get(m2, "current_data", EmptyDict),
                                     new.val["current_data"])
      summary == Dict([k \in DOMAIN new.val["summary"].val |->
                        Num(existing.val["summary"].val[k].val + new.val["summary"].val[k].val)])
  IN  Put(Put(m2, "current_data", current), "summary", summary)

\* Mutant: the summary of the stored profile is carried over.
merge_profiles_keeps_summary(existing, new) ==
  LET scan_entry == Dict([timestamp |-> new.val["last_updated"],
                          scan_results |-> new.val["current_data"]])
      m1 == Put(existing, "last_updated", new.val["last_updated"])
      m2 == Put(m1, "scan_history",
                List(Append(existing.val["scan_history"].val, scan_entry)))
  IN  Put(m2, "current_data",
          _merge_scan_results(Get(m2, "current_data", EmptyDict), new.val["current_data"]))

\* existing is a loaded profile, new the profile_data built from the session.
_merge_profiles(existing, new) ==
  IF "scan_history" \notin DOMAIN existing.val THEN Raise("KeyError")
  ELSE IF ~IsList(existing.val["scan_history"]) THEN Raise("AttributeError")
  ELSE LET scan_entry == Dict([timestamp |-> new.val["last_updated"],
                               scan_results |-> new.val["current_data"]])
           m1 == Put(existing, "last_updated", new.val["last_updated"])
           m2 == Put(m1, "scan_history",
                     List(Append(existing.val["scan_history"].val, scan_entry)))
           current == _merge_scan_results(Get(m2, "current_data", EmptyDict),
                                          new.val["current_data"])
       IN  IF IsRaise(current) THEN current
           ELSE LET summary == _generate_summary(current) IN
                IF IsRaise(summary) THEN summary
                ELSE Put(Put(m2, "current_data", current), "summary", summary)

----------------------------------------------------------------------------
(* Time: datetime.now() reads the clock.  isoformat() and strftime() are    *)
(* modelled as strings built from the clock value.                         *)

isoformat(now) == Str(<<"T", ToString(now)>>)

strftime(now) == <<ToString(now)>>

----------------------------------------------------------------------------
(* Name derivation (ProfileManager._generate_profile_name) *)

Whitespace == {" ", "\t"}

\* the least index of sep in s, 0 when s has none
Find(s, sep) ==
  IF \E i \in 1..Len(s) : s[i] = sep
  THEN CHOOSE i \in 1..Len(s) : s[i] = sep /\ \A j \in 1..(i - 1) : s[j] # sep
  ELSE 0

\* str.split(sep)
RECURSIVE split(_, _)
split(s, sep) ==
  LET i == Find(s, sep) IN
  IF i = 0 THEN <<s>>
  ELSE <<SubSeq(s, 1, i - 1)>> \o split(SubSeq(s, i + 1, Len(s)), sep)

\* the length of the longest prefix of s without whitespace
RECURSIVE WordLen(_)
WordLen(s) == IF s = <<>> \/ s[1] \in Whitespace THEN 0 ELSE 1 + WordLen(Tail(s))

\* str.split() with no separator: the maximal runs of non-whitespace
RECURSIVE split_ws(_)
split_ws(s) ==
  IF s = <<>> THEN <<>>
  ELSE IF s[1] \in Whitespace THEN split_ws(Tail(s))
  ELSE <<SubSeq(s, 1, WordLen(s))>> \o split_ws(SubSeq(s, WordLen(s) + 1, Len(s)))

\* Mutant: the email is used whole, without the split at "@".
generate_profile_name_whole_email(target, now) ==
  IF Truthy(Get(target, "username", None))
  THEN Str(<<"profile_">> \o target.val["username"].val)
  ELSE IF Truthy(Get(target, "email", None))
  THEN Str(<<"profile_">> \o target.val["email"].val)
  ELSE IF Truthy(Get(target, "domain", None))
  THEN Str(<<"profile_">> \o target.val["domain"].val)
  ELSE LET name_parts == IF Truthy(Get(target, "full_name", None))
                         THEN split_ws(target.val["full_name"].val) ELSE <<>>
       IN  IF Len(name_parts) >= 2
           THEN Str(<<"profile_">> \o name_parts[1] \o <<"_">> \o name_parts[2])
           ELSE Str(<<"profile_">> \o strftime(now))

_generate_profile_name(target, now) ==
  IF Truthy(Get(target, "username", None))
  THEN Str(<<"profile_">> \o target.val["username"].val)
  ELSE IF Truthy(Get(target, "email", None))
  THEN Str(<<"profile_">> \o split(target.val["email"].val, "@")[1])
  ELSE IF Truthy(Get(target, "domain", None))
  THEN Str(<<"profile_">> \o target.val["domain"].val)
  ELSE LET name_parts == IF Truthy(Get(target, "full_name", None))
                         THEN split_ws(target.val["full_name"].val) ELSE <<>>
       IN  IF Len(name_parts) >= 2
           THEN Str(<<"profile_">> \o name_parts[1] \o <<"_">> \o name_parts[2])
           ELSE Str(<<"profile_">> \o strftime(now))

----------------------------------------------------------------------------
(* Profile store (ProfileManager.save_profile, load_profile, delete_profile) *)
(* fs is the profiles directory: a function from file names to contents.    *)

\* Mutant: every profile is kept in one file.
profile_file_single(profile_name) == <<"profiles", ".json">>

\* self.profiles_dir / f"{profile_name}.json"
profile_file(profile_name) == profile_name.val \o <<".json">>

\* load_profile: None when the file does not exist and when json.load raises
\* one of (json.JSONDecodeError, IOError); any other exception leaves it.
load_profile(fs, profile_name) ==
  IF profile_file(profile_name) \notin DOMAIN fs THEN None
  ELSE LET v == json_load(fs[profile_file(profile_name)]) IN
       IF v \in {Raise("JSONDecodeError"), Raise("IOError")} THEN None ELSE v

\* Mutant: the explicit name is ignored.
resolve_name_derived_only(target, profile_name, now) == _generate_profile_name(target, now)

\* The name save_profile resolves: the explicit one if truthy, else derived.
resolve_name(target, profile_name, now) ==
  IF ~Truthy(profile_name) THEN _generate_profile_name(target, now) ELSE profile_name

\* The profile_data save_profile builds from the session before it looks for
\* an existing profile; Raise when _generate_summary raises.  The two
\* datetime.now() calls of one save read the same clock value.
new_profile_data(target, scan_results, name, now) ==
  LET summary == _generate_summary(scan_results) IN
  IF IsRaise(summary) THEN summary
  ELSE Dict([target |-> target, profile_name |-> name,
             created_at |-> isoformat(now), last_updated |-> isoformat(now),
             scan_history |-> List(<<>>), current_data |-> scan_results,
             summary |-> summary])

\* The profile_data save_profile writes: merged with the existing profile
\* when load_profile returns a truthy value.
final_profile_data(fs, target, scan_results, name, now) ==
  LET profile_data == new_profile_data(target, scan_results, name, now)
      existing_profile == load_profile(fs, name)
  IN  IF IsRaise(profile_data) THEN profile_data
      ELSE IF IsRaise(existing_profile) THEN existing_profile
      ELSE IF Truthy(existing_profile)
      THEN IF IsDict(existing_profile) THEN _merge_profiles(existing_profile, profile_data)
           ELSE Raise("TypeError")
      ELSE profile_data

\* How the write of save_profile ends: both calls succeed, open() raises, or
\* json.dump raises after `cut` tokens have reached the file.
IoOk == [fails |-> "none", cut |-> 0]

OpenFails == [fails |-> "open", cut |-> 0]

DumpFails(cut) == [fails |-> "dump", cut |-> cut]

\* fs[f] = content on a copy of the directory
WriteFile(fs, f, content) ==
  [g \in DOMAIN fs \cup {f} |-> IF g = f THEN content ELSE fs[g]]

\* Mutant: the write is wrapped in a handler that swallows its exception.
write_profile_swallowed(fs, f, profile_data, io) ==
  CASE io.fails = "none" -> [files |-> WriteFile(fs, f, json_dumps(profile_data)), exc |-> None]
    [] io.fails = "open" -> [files |-> fs, exc |-> None]
    [] io.fails = "dump" ->
         [files |-> WriteFile(fs, f, SubSeq(json_dumps(profile_data), 1, io.cut)),
          exc |-> None]

\* with open(profile_file, 'w') as f: json.dump(profile_data, f, ...)
\* open() truncates the file; [files: the directory after, exc: None or the
\* exception that leaves the with block].
write_profile(fs, f, profile_data, io) ==
  CASE io.fails = "none" -> [files |-> WriteFile(fs, f, json_dumps(profile_data)), exc |-> None]
    [] io.fails = "open" -> [files |-> fs, exc |-> Raise("IOError")]
    [] io.fails = "dump" ->
         [files |-> WriteFile(fs, f, SubSeq(json_dumps(profile_data), 1, io.cut)),
          exc |-> Raise("IOError")]

\* save_profile: [files: the directory after the call, ret: the returned name
\* or the exception raised, data: the profile_data built (None when building
\* it raised)].  io is how the write ends.
save_profile(fs, target, scan_results, profile_name, now, io) ==
  LET name == resolve_name(target, profile_name, now)
      profile_data == final_profile_data(fs, target, scan_results, name, now)
  IN  IF IsRaise(profile_data)
      THEN [files |-> fs, ret |-> profile_data, data |-> None]
      ELSE LET w == write_profile(fs, profile_file(name), profile_data, io) IN
           [files |-> w.files, ret |-> IF w.exc = None THEN name ELSE w.exc,
            data |-> profile_data]

\* Mutant: unlink(missing_ok=True) without the exists() test.
delete_profile_missing_ok(fs, profile_name) ==
  [files |-> [f \in DOMAIN fs \ {profile_file(profile_name)} |-> fs[f]], ret |-> TRUE]

\* delete_profile: [files, ret: whether the file existed]
delete_profile(fs, profile_name) ==
  IF profile_file(profile_name) \in DOMAIN fs
  THEN [files |-> [f \in DOMAIN fs \ {profile_file(profile_name)} |-> fs[f]], ret |-> TRUE]
  ELSE [files |-> fs, ret |-> FALSE]

\* len(x) for the values a scan_history can hold
len(x) ==
  CASE x.kind \in {"list", "str"} -> Num(Len(x.val))
    [] x.kind = "dict"            -> Num(Cardinality(DOMAIN x.val))
    [] OTHER                      -> Raise("TypeError")

\* the dict list_profiles appends for the profile_data loaded from file f;
\* f.stem is the file name without ".json"
profile_info(f, profile_data) ==
  IF ~IsDict(profile_data) THEN Raise("AttributeError")
  ELSE LET scan_count == len(Get(profile_data, "scan_history", List(<<>>))) IN
       IF IsRaise(scan_count) THEN scan_count
       ELSE Dict([name |-> Get(profile_data, "profile_name", Str(SubSeq(f, 1, Len(f) - 1))),
                  target |-> Get(profile_data, "target", EmptyDict),
                  created_at |-> Get(profile_data, "created_at", Str(<<>>)),
                  last_updated |-> Get(profile_data, "last_updated", Str(<<>>)),
                  scan_count |-> scan_count,
                  file_path |-> Str(f)])

\* The for loop of list_profiles over the files in glob order: a file whose
\* json.load raises one of (json.JSONDecodeError, IOError) is skipped, any
\* other exception leaves list_profiles.
RECURSIVE list_loop(_, _, _)
list_loop(fs, glob, profiles) ==
  IF glob = <<>> THEN List(profiles)
  ELSE LET profile_data == json_load(fs[Head(glob)]) IN
       IF profile_data \in {Raise("JSONDecodeError"), Raise("IOError")}
       THEN list_loop(fs, Tail(glob), profiles)
       ELSE IF IsRaise(profile_data) THEN profile_data
       ELSE LET info == profile_info(Head(glob), profile_data) IN
            IF IsRaise(info) THEN info
            ELSE list_loop(fs, Tail(glob), Append(profiles, info))

\* The code points of the symbols timestamps are made of.
Ord ==
  [c \in {"0", "1", "2", "3", "4", "5", "6", "7", "8", "9", "T"} |->
     CASE c = "0" -> 48 [] c = "1" -> 49 [] c = "2" -> 50 [] c = "3" -> 51
       [] c = "4" -> 52 [] c = "5" -> 53 [] c = "6" -> 54 [] c = "7" -> 55
       [] c = "8" -> 56 [] c = "9" -> 57 [] c = "T" -> 84]

\* a < b on str values: the order of the first symbol they differ in
RECURSIVE StrLess(_, _)
StrLess(a, b) ==
  IF b = <<>> THEN FALSE
  ELSE IF a = <<>> THEN TRUE
  ELSE IF Head(a) = Head(b) THEN StrLess(Tail(a), Tail(b))
  ELSE Ord[Head(a)] < Ord[Head(b)]

\* Mutant: the sort is ascending (no reverse=True).
RECURSIVE insert_oldest_first(_, _)
insert_oldest_first(sorted, x) ==
  IF sorted = <<>> THEN <<x>>
  ELSE IF StrLess(x.val["last_updated"].val, Head(sorted).val["last_updated"].val)
  THEN <<x>> \o sorted
  ELSE <<Head(sorted)>> \o insert_oldest_first(Tail(sorted), x)

\* x put into a list sorted by last_updated, newest first, behind the
\* records that are not older than x (the sort is stable)
RECURSIVE InsertByLastUpdated(_, _)
InsertByLastUpdated(sorted, x) ==
  IF sorted = <<>> THEN <<x>>
  ELSE IF StrLess(Head(sorted).val["last_updated"].val, x.val["last_updated"].val)
  THEN <<x>> \o sorted
  ELSE <<Head(sorted)>> \o InsertByLastUpdated(Tail(sorted), x)

\* sorted(profiles, key=lambda x: x["last_updated"], reverse=True)
RECURSIVE sorted_by_last_updated(_, _)
sorted_by_last_updated(profiles, acc) ==
  IF profiles = <<>> THEN acc
  ELSE sorted_by_last_updated(Tail(profiles), InsertByLastUpdated(acc, Head(profiles)))

\* list_profiles, glob the order in which glob("*.json") yields the files:
\* the list of records, or the exception raised.  The sort compares the
\* last_updated values, which are str in every profile save_profile writes;
\* comparing values of other types raises.
list_profiles(fs, glob) ==
  LET profiles == list_loop(fs, glob, <<>>) IN
  IF IsRaise(profiles) THEN profiles
  ELSE IF /\ Len(profiles.val) >= 2
          /\ \E i \in 1..Len(profiles.val) : profiles.val[i].val["last_updated"].kind # "str"
  THEN Raise("TypeError")
  ELSE List(sorted_by_last_updated(profiles.val, <<>>))

\* the orders in which glob can yield the files of the directory
Globs(fs) ==
  {g \in [1..Cardinality(DOMAIN fs) -> DOMAIN fs] :
     \A i, j \in DOMAIN g : i # j => g[i] # g[j]}

----------------------------------------------------------------------------
(* Scan orchestrator (OSINTScanner.scan_target)                            *)
(* A collector call ends in an outcome: it returns `value` after `elapsed`  *)
(* seconds, or it raises an Exception whose str() is `value`; or it stalls  *)
(* and never ends.                                                          *)

\* the keys of self.scanners
Scanners == {"social", "breach", "public", "images", "geolocation", "domain"}

Returned(data, elapsed) == [raised |-> FALSE, value |-> data, elapsed |-> elapsed]

Raised(msg) == [raised |-> TRUE, value |-> S(msg), elapsed |-> 0]

\* scanner.scan(target, nsfw=nsfw) does not return
Stalled == [stalled |-> TRUE]

\* the results dict scan_target starts from
scan_results_init(target, search_types, now) ==
  Dict([target |-> target, scan_time |-> isoformat(now),
        search_types |-> List([i \in 1..Len(search_types) |-> S(search_types[i])]),
        results |-> EmptyDict])

\* results["results"][search_type] = entry
SetResult(results, search_type, entry) ==
  Put(results, "results", Put(results.val["results"], search_type, entry))

\* Mutant: a search type without a scanner is recorded as failed.
scan_iteration_unknown_failed(results, search_type, outcome) ==
  IF search_type \in Scanners
  THEN IF ~outcome.raised
       THEN SetResult(results, search_type,
                      Dict([data |-> outcome.value, scan_time |-> Num(outcome.elapsed),
                            status |-> S("completed")]))
       ELSE SetResult(results, search_type,
                      Dict([data |-> EmptyDict, error |-> outcome.value,
                            status |-> S("failed")]))
  ELSE SetResult(results, search_type,
                 Dict([data |-> EmptyDict, error |-> S("unknown search type"),
                       status |-> S("failed")]))

\* Mutant: no except block - the collector's exception leaves scan_target.
scan_iteration_uncaught(results, search_type, outcome) ==
  IF search_type \in Scanners
  THEN IF ~outcome.raised
       THEN SetResult(results, search_type,
                      Dict([data |-> outcome.value, scan_time |-> Num(outcome.elapsed),
                            status |-> S("completed")]))
       ELSE Raise(outcome.value.val)
  ELSE results

\* One iteration of the for loop of scan_target: the try block stores a
\* completed entry, the except block a failed one, and an unknown search
\* type is only logged.
scan_iteration(results, search_type, outcome) ==
  IF search_type \in Scanners
  THEN IF ~outcome.raised
       THEN SetResult(results, search_type,
                      Dict([data |-> outcome.value, scan_time |-> Num(outcome.elapsed),
                            status |-> S("completed")]))
       ELSE SetResult(results, search_type,
                      Dict([data |-> EmptyDict, error |-> outcome.value,
                            status |-> S("failed")]))
  ELSE results

\* The whole loop, the collector of search type t ending in outcomes[t].
RECURSIVE scan_loop(_, _, _)
scan_loop(results, search_types, outcomes) ==
  IF search_types = <<>> THEN results
  ELSE scan_loop(scan_iteration(results, Head(search_types), outcomes[Head(search_types)]),
                 Tail(search_types), outcomes)

scan_target(target, search_types, outcomes, now) ==
  scan_loop(scan_results_init(target, search_types, now), search_types, outcomes)

----------------------------------------------------------------------------
(* Bounded inputs *)

MaxListLen == 1

PartialFns(K, V) == UNION {[D -> V] : D \in SUBSET K}

SeqsUpTo(E, n) == UNION {[1..m -> E] : m \in 0..n}

Scalars == {Num(1), S("a")}

Lists == {List(s) : s \in SeqsUpTo(Scalars, MaxListLen)}

Leaves == Scalars \cup Lists

InnerDicts == {Dict(f) : f \in PartialFns({"z"}, Leaves)}

MergeValues == Leaves \cup InnerDicts

\* the trees the merge functions are applied to: mappings of two keys whose
\* values are scalars, lists and nested mappings
MergeTrees == {Dict(f) : f \in PartialFns({"social", "breach"}, MergeValues)}

----------------------------------------------------------------------------
(* The states of the parts a specification does not run *)

NoFiles == [f \in {} |-> <<>>]

NoSaves == [f \in {} |-> 0]

ScanIdle == [pc |-> "idle"]

NoCall == [fn |-> "none"]

----------------------------------------------------------------------------
(* SpecMerge: the merge functions applied to every pair of bounded trees *)

InitMerge ==
  /\ files = NoFiles /\ clock = 0 /\ ret = None /\ saves = NoSaves /\ scan = ScanIdle
  /\ call \in {[fn |-> "input", existing |-> a, new |-> b, out |-> None, after |-> None] :
                 a \in MergeTrees \cup Leaves, b \in MergeTrees \cup Leaves}

CallMergeDataStructures ==
  /\ call.fn = "input"
  /\ call' = [call EXCEPT !.fn = "_merge_data_structures",
                          !.out = _merge_data_structures(call.existing, call.new),
                          !.after = existing_after_merge_data_structures(call.existing,
                                                                         call.new)]
  /\ UNCHANGED <<files, clock, ret, saves, scan>>

\* _merge_scan_results on sessions whose "results" are the two trees; after
\* is the first argument as the call leaves it
CallMergeScanResults ==
  /\ call.fn = "input"
  /\ IsDict(call.existing) /\ IsDict(call.new)
  /\ call' = [call EXCEPT !.fn = "_merge_scan_results",
                          !.out = _merge_scan_results(Dict([results |-> call.existing]),
                                                      Dict([results |-> call.new])),
                          !.after = existing_after_merge_scan_results(
                                      Dict([results |-> call.existing]),
                                      Dict([results |-> call.new]))]
  /\ UNCHANGED <<files, clock, ret, saves, scan>>

NextMerge == CallMergeDataStructures \/ CallMergeScanResults

SpecMerge == InitMerge /\ [][NextMerge]_vars

IsScalar(v) == v.kind \in {"null", "num", "str"}

\* What the rule of the merge engine asks of the merge m of a with b, at
\* every depth.
RECURSIVE MergeRule(_, _, _)
MergeRule(a, b, m) ==
  IF IsDict(a) /\ IsDict(b)
  THEN /\ IsDict(m)
       /\ DOMAIN m.val = DOMAIN a.val \cup DOMAIN b.val
       /\ \A k \in DOMAIN a.val \ DOMAIN b.val : m.val[k] = a.val[k]
       /\ \A k \in DOMAIN b.val \ DOMAIN a.val : m.val[k] = b.val[k]
       /\ \A k \in DOMAIN a.val \cap DOMAIN b.val :
            /\ IsScalar(a.val[k]) /\ IsScalar(b.val[k]) => m.val[k] = b.val[k]
            /\ IsList(a.val[k]) /\ IsList(b.val[k]) =>
                 /\ IsList(m.val[k])
                 /\ Len(m.val[k].val) = Len(a.val[k].val) + Len(b.val[k].val)
                 /\ SubSeq(m.val[k].val, 1, Len(a.val[k].val)) = a.val[k].val
                 /\ SubSeq(m.val[k].val, Len(a.val[k].val) + 1, Len(m.val[k].val))
                      = b.val[k].val
            /\ IsDict(a.val[k]) /\ IsDict(b.val[k]) =>
                 MergeRule(a.val[k], b.val[k], m.val[k])
  ELSE TRUE

\* C5: for all mapping trees A and B, _merge_data_structures(A, B) has every
\* key of A and of B; a key only in A keeps A's value, a key only in B takes
\* B's, an overlapping scalar takes B's value and an overlapping sequence is
\* A's elements followed by B's (length len(A[k]) + len(B[k])).
C5_MergeKeysAndValues ==
  call.fn = "_merge_data_structures" /\ IsDict(call.existing) /\ IsDict(call.new)
    => MergeRule(call.existing, call.new, call.out)

C5_Witness ==
  /\ call.fn = "_merge_data_structures"
  /\ call.existing = Dict([social |-> List(<<Num(1)>>), breach |-> Num(1)])
  /\ call.new = Dict([social |-> List(<<S("a")>>), breach |-> S("a")])
  /\ call.out = Dict([social |-> List(<<Num(1), S("a")>>), breach |-> S("a")])

\* What merging a tree with itself gives: the same keys, the scalars as they
\* were, and every sequence under a key twice as long.
RECURSIVE SelfMerged(_, _)
SelfMerged(a, m) ==
  IF IsDict(a)
  THEN /\ IsDict(m) /\ DOMAIN m.val = DOMAIN a.val
       /\ \A k \in DOMAIN a.val : SelfMerged(a.val[k], m.val[k])
  ELSE IF IsList(a)
  THEN IsList(m) /\ Len(m.val) = 2 * Len(a.val) /\ m.val = a.val \o a.val
  ELSE m = a

\* C6: merge(A, A) has the keys of A, every scalar leaf unchanged and every
\* sequence-typed leaf doubled in length, so the merge is not idempotent.
C6_SelfMergeDoubles ==
  call.fn = "_merge_data_structures" /\ call.existing = call.new
    => SelfMerged(call.existing, call.out)

C6_Witness ==
  /\ call.fn = "_merge_data_structures"
  /\ call.existing = call.new
  /\ call.existing = Dict([social |-> Dict([z |-> List(<<Num(1)>>)]), breach |-> S("a")])
  /\ call.out = Dict([social |-> Dict([z |-> List(<<Num(1), Num(1)>>)]), breach |-> S("a")])
  /\ call.out # call.existing

\* the pairs of values the claim calls a type conflict
Conflict(a, b) == a.kind # b.kind \/ IsScalar(a) \/ IsScalar(b)

\* C7: the merge is total and last-write-wins: where the existing and the
\* new value differ in kind or either is a scalar, the merged value is the
\* new value, and no merge raises.  Stated of the recursive rule and of the
\* per-category merge of a session into a profile.
C7_LastWriteWins ==
  /\ call.fn = "_merge_data_structures" =>
       /\ ~IsRaise(call.out)
       /\ Conflict(call.existing, call.new) => call.out = call.new
  /\ call.fn = "_merge_scan_results" =>
       /\ ~IsRaise(call.out)
       /\ \A c \in DOMAIN call.existing.val \cap DOMAIN call.new.val :
            Conflict(call.existing.val[c], call.new.val[c])
              => call.out.val["results"].val[c] = call.new.val[c]

\* C24: the merge functions do not mutate their inputs.  When
\* _merge_data_structures or _merge_scan_results has returned, the object
\* passed as `existing` equals what it was before the call.
C24_MergeLeavesInputsAlone ==
  /\ call.fn = "_merge_data_structures" => call.after = call.existing
  /\ call.fn = "_merge_scan_results" => call.after = Dict([results |-> call.existing])

\* C25: the session-to-profile merge applies the recursive merge rule once
\* per category.  A category of the new session alone is inserted as it is,
\* a category of the existing profile alone is kept as it is, and the merged
\* entry of a category in both is the recursive merge of the two entries.
C25_CategoryMergeIsRecursiveRule ==
  call.fn = "_merge_scan_results" =>
    /\ ~IsRaise(call.out)
    /\ DOMAIN call.out.val["results"].val = DOMAIN call.existing.val \cup DOMAIN call.new.val
    /\ \A c \in DOMAIN call.out.val["results"].val :
         LET merged == call.out.val["results"].val[c] IN
         IF c \notin DOMAIN call.existing.val THEN merged = call.new.val[c]
         ELSE IF c \notin DOMAIN call.new.val THEN merged = call.existing.val[c]
         ELSE MergeRule(call.existing.val[c], call.new.val[c], merged)

----------------------------------------------------------------------------
(* SpecName: _generate_profile_name applied to every bounded target *)

MaxStrLen == 3

MaxClock == 1

\* the entry of a target for key k: none when the option is None
Field(k, opt) == IF opt = None THEN EmptyMap ELSE [x \in {k} |-> opt]

UsernameOpts == {None, Str(<<>>), S("u")}

EmailOpts == {None} \cup {Str(s) : s \in SeqsUpTo({"e", "@"}, MaxStrLen)}

DomainOpts == {None, S("d")}

FullNameOpts == {None} \cup {Str(s) : s \in SeqsUpTo({"n", " ", "\t"}, MaxStrLen)}

NameTargets ==
  {Dict(Field("username", u) @@ Field("email", e) @@ Field("domain", d)
          @@ Field("full_name", n)) :
     u \in UsernameOpts, e \in EmailOpts, d \in DomainOpts, n \in FullNameOpts}

InitName ==
  /\ files = NoFiles /\ clock = 0 /\ ret = None /\ saves = NoSaves /\ scan = ScanIdle
  /\ call \in {[fn |-> "input", target |-> t, now |-> 0, out |-> None] : t \in NameTargets}

CallGenerateProfileName ==
  /\ call.fn = "input"
  /\ \E now \in 0..MaxClock :
       call' = [call EXCEPT !.fn = "_generate_profile_name", !.now = now,
                            !.out = _generate_profile_name(call.target, now)]
  /\ UNCHANGED <<files, clock, ret, saves, scan>>

NextName == CallGenerateProfileName

SpecName == InitName /\ [][NextName]_vars

\* the identity field k of a target is set and not empty
Present(target, k) == k \in DOMAIN target.val /\ target.val[k].val # <<>>

\* the part of e before its first "@" (all of e when it has none)
LocalPart(e) ==
  LET n == CHOOSE n \in 0..Len(e) :
             /\ \A i \in 1..n : e[i] # "@"
             /\ n = Len(e) \/ e[n + 1] = "@"
  IN  SubSeq(e, 1, n)

\* the words of s: <<i, j>> for every maximal run s[i..j] without whitespace
Words(s) ==
  {w \in (1..Len(s)) \X (1..Len(s)) :
     /\ w[1] <= w[2]
     /\ \A i \in w[1]..w[2] : s[i] \notin Whitespace
     /\ w[1] = 1 \/ s[w[1] - 1] \in Whitespace
     /\ w[2] = Len(s) \/ s[w[2] + 1] \in Whitespace}

FirstWord(s) == CHOOSE w \in Words(s) : \A v \in Words(s) : w[1] <= v[1]

SecondWord(s) ==
  CHOOSE w \in Words(s) \ {FirstWord(s)} :
    \A v \in Words(s) \ {FirstWord(s)} : w[1] <= v[1]

TwoWords(target) ==
  Present(target, "full_name") /\ Cardinality(Words(target.val["full_name"].val)) >= 2

\* the target falls through to the timestamp
NoStableName(target) ==
  /\ ~Present(target, "username") /\ ~Present(target, "email")
  /\ ~Present(target, "domain") /\ ~TwoWords(target)

\* the name the precedence of the specification gives a target
ExpectedName(target, now) ==
  IF Present(target, "username") THEN <<"profile_">> \o target.val["username"].val
  ELSE IF Present(target, "email") THEN <<"profile_">> \o LocalPart(target.val["email"].val)
  ELSE IF Present(target, "domain") THEN <<"profile_">> \o target.val["domain"].val
  ELSE IF TwoWords(target)
  THEN LET s == target.val["full_name"].val IN
       <<"profile_">> \o SubSeq(s, FirstWord(s)[1], FirstWord(s)[2]) \o <<"_">>
         \o SubSeq(s, SecondWord(s)[1], SecondWord(s)[2])
  ELSE <<"profile_">> \o strftime(now)

\* C8: _generate_profile_name is total and first-match: username, else the
\* email's part before the first "@", else domain, else the first two
\* whitespace-separated words of full_name, else a timestamp name; only the
\* last case depends on the clock.
C8_NamePrecedence ==
  call.fn = "_generate_profile_name" =>
    /\ call.out = Str(ExpectedName(call.target, call.now))
    /\ ~NoStableName(call.target) =>
         \A t \in 0..MaxClock : _generate_profile_name(call.target, t) = call.out
    /\ NoStableName(call.target) =>
         \A t \in 0..MaxClock :
           t # call.now => _generate_profile_name(call.target, t) # call.out

C8_Witness ==
  /\ call.fn = "_generate_profile_name"
  /\ call.target = Dict([email |-> Str(<<>>), full_name |-> Str(<<"n", "\t", "n">>)])
  /\ call.out = Str(<<"profile_", "n", "_", "n">>)

----------------------------------------------------------------------------
(* SpecScan: scan_target run one loop iteration at a time *)

MaxTypes == 2

\* the search types a caller asks for; "nosuch" has no scanner
RequestTypes == {"social", "breach", "nosuch"}

Alice == Dict([username |-> S("alice")])

SocialData(n) ==
  Dict([platforms |-> List(<<S("twitter")>>), summary |-> Dict([found_profiles |-> Num(n)])])

BreachData(n) ==
  Dict([breaches |-> List(<<S("hibp")>>), summary |-> Dict([total_breaches |-> Num(n)])])

\* how a call of the collector of a search type can end
CollectorOutcomes(search_type) ==
  IF search_type = "social"
  THEN {Returned(SocialData(2), 1), Returned(SocialData(3), 2), Raised("timeout"), Stalled}
  ELSE {Returned(BreachData(1), 1), Raised("denied"), Stalled}

InitScan ==
  /\ files = NoFiles /\ clock = 0 /\ ret = None /\ saves = NoSaves /\ call = NoCall
  /\ scan = ScanIdle

ScanCall ==
  /\ scan.pc = "idle"
  /\ \E search_types \in SeqsUpTo(RequestTypes, MaxTypes) :
     \E social \in CollectorOutcomes("social"), breach \in CollectorOutcomes("breach") :
       scan' = [pc |-> "loop", search_types |-> search_types,
                outcomes |-> [social |-> social, breach |-> breach],
                i |-> 1, log |-> <<>>,
                results |-> scan_results_init(Alice, search_types, clock)]
  /\ UNCHANGED <<files, clock, ret, saves, call>>

\* the loop is at a registered search type whose collector stalls
AtStalled ==
  /\ scan.pc = "loop" /\ scan.i <= Len(scan.search_types)
  /\ scan.search_types[scan.i] \in Scanners
  /\ scan.outcomes[scan.search_types[scan.i]] = Stalled

\* One iteration: the collector of a registered search type is invoked (and
\* logged) and ends in its outcome; an exception that scan_iteration does not
\* handle leaves scan_target.  The call is synchronous: while the collector
\* has not ended, the iteration has not either.
ScanIterate ==
  /\ scan.pc = "loop" /\ scan.i <= Len(scan.search_types)
  /\ ~AtStalled
  /\ LET search_type == scan.search_types[scan.i]
         outcome == IF search_type \in Scanners THEN scan.outcomes[search_type]
                    ELSE Returned(None, 0)
         results == scan_iteration(scan.results, search_type, outcome)
         log == IF search_type \in Scanners THEN Append(scan.log, search_type) ELSE scan.log
     IN  scan' = IF IsRaise(results)
                 THEN [scan EXCEPT !.pc = "raised", !.log = log, !.results = results]
                 ELSE [scan EXCEPT !.i = @ + 1, !.log = log, !.results = results]
  /\ UNCHANGED <<files, clock, ret, saves, call>>

ScanReturn ==
  /\ scan.pc = "loop" /\ scan.i > Len(scan.search_types)
  /\ scan' = [scan EXCEPT !.pc = "done"]
  /\ UNCHANGED <<files, clock, ret, saves, call>>

NextScan == ScanCall \/ ScanIterate \/ ScanReturn

SpecScan == InitScan /\ [][NextScan]_vars

Registered(search_type) == search_type \in Scanners

Requested == {scan.search_types[i] : i \in 1..Len(scan.search_types)}

\* C1: failure isolation.  No exception leaves scan_target; when it has
\* returned, every requested registered category whose collector raised is
\* "failed" with the error text, every one whose collector returned is
\* "completed" with its data, and every requested registered category was
\* invoked, in order, whatever happened to the ones before it.
C1_FailureIsolation ==
  /\ scan.pc # "raised"
  /\ scan.pc = "done" =>
       /\ scan.log = SelectSeq(scan.search_types, Registered)
       /\ \A c \in Requested \cap Scanners :
            LET entry == scan.results.val["results"].val[c]
                outcome == scan.outcomes[c]
            IN  IF outcome.raised
                THEN /\ entry.val["status"] = S("failed")
                     /\ entry.val["error"] = outcome.value
                ELSE /\ entry.val["status"] = S("completed")
                     /\ entry.val["data"] = outcome.value

\* C13: when scan_target has returned, the keys of its results are the
\* requested categories that have a registered collector - a requested
\* category without one raised nothing and has no entry, failed or other -
\* and the session has its "target" and its "results", the latter empty
\* when no requested category is registered.
C13_ResultKeysAreRegisteredRequests ==
  /\ scan.pc # "raised"
  /\ scan.pc = "done" =>
       /\ {"target", "results"} \subseteq DOMAIN scan.results.val
       /\ scan.results.val["target"] = Alice
       /\ DOMAIN scan.results.val["results"].val = Requested \cap Scanners
       /\ Requested \cap Scanners = {} => scan.results.val["results"] = EmptyDict

\* a request for an unknown and a registered category
C13_Witness ==
  /\ scan.pc = "done"
  /\ scan.search_types = <<"nosuch", "social">>
  /\ scan.outcomes["social"] = Returned(SocialData(2), 1)
  /\ DOMAIN scan.results.val["results"].val = {"social"}

\* C14: a stalled collector does not stall scan_target.  A call of
\* scan_target that has not returned can always take a step, and when it has
\* returned every requested category whose collector stalled is "failed"
\* with the error "timeout".
C14_StalledCollectorTimesOut ==
  /\ scan.pc = "loop" => ENABLED NextScan
  /\ scan.pc = "done" =>
       \A c \in Requested \cap Scanners :
         scan.outcomes[c] = Stalled =>
           /\ scan.results.val["results"].val[c].val["status"] = S("failed")
           /\ scan.results.val["results"].val[c].val["error"] = S("timeout")

\* C26: the elapsed time of a collector call is recorded whatever its
\* outcome.  When scan_target has returned, every entry of its results,
\* completed or failed, has the scan_time of its call.
C26_ElapsedTimeInEveryEntry ==
  scan.pc = "done" =>
    \A c \in DOMAIN scan.results.val["results"].val :
      LET entry == scan.results.val["results"].val[c] IN
      /\ "scan_time" \in DOMAIN entry.val
      /\ entry.val["scan_time"] = Num(scan.outcomes[c].elapsed)

C1_Witness ==
  /\ scan.pc = "done"
  /\ scan.search_types = <<"social", "breach">>
  /\ scan.outcomes["social"] = Raised("timeout")
  /\ scan.outcomes["breach"] = Returned(BreachData(1), 1)
  /\ scan.results.val["results"].val["social"].val["status"] = S("failed")
  /\ scan.results.val["results"].val["breach"].val["status"] = S("completed")

----------------------------------------------------------------------------
(* Spec: the profile store under sequences of saves and deletes.  Every    *)
(* session saved is what scan_target returns for one of a few scans.        *)

MaxSaves == 2

Bob == Dict([email |-> Str(<<"bob", "@", "example.com">>)])

\* the scans whose sessions are saved: the requested types and how each
\* collector ends
Scans ==
  {[search_types |-> <<"social">>, outcomes |-> [social |-> Returned(SocialData(2), 1)]],
   [search_types |-> <<"social">>, outcomes |-> [social |-> Returned(SocialData(3), 2)]],
   [search_types |-> <<"social">>, outcomes |-> [social |-> Raised("timeout")]],
   [search_types |-> <<"breach">>, outcomes |-> [breach |-> Returned(BreachData(1), 1)]]}

\* the (target, profile_name) arguments of the saves; None: no explicit name
SaveArgs ==
  {[target |-> Alice, profile_name |-> None],
   [target |-> Bob, profile_name |-> S("case1")]}

\* a save under the name of a profile that may hold another target
Retarget == [target |-> Alice, profile_name |-> S("case1")]

\* the saves of the store: any scan for the arguments of SaveArgs, and the
\* first scan under Retarget
SaveCalls ==
  {[args |-> a, scan |-> sc] : a \in SaveArgs, sc \in Scans}
    \cup {[args |-> Retarget,
           scan |-> [search_types |-> <<"social">>,
                     outcomes |-> [social |-> Returned(SocialData(2), 1)]]]}

\* ret: the last call and what it returned.  saves: the number of saves so
\* far and, per profile file, the sessions saved to it since it was created.
Init ==
  /\ files = NoFiles /\ clock = 0 /\ scan = ScanIdle /\ call = NoCall
  /\ ret = [op |-> "none"]
  /\ saves = [n |-> 0, log |-> NoFiles]

Tick ==
  /\ clock < MaxClock
  /\ clock' = clock + 1
  /\ UNCHANGED <<files, ret, saves, scan, call>>

LogSave(f, session) ==
  [saves EXCEPT !.n = @ + 1,
                !.log = [g \in DOMAIN saves.log \cup {f} |->
                           IF g = f
                           THEN (IF f \in DOMAIN saves.log THEN saves.log[f] ELSE <<>>)
                                  \o <<session>>
                           ELSE saves.log[g]]]

\* One call of save_profile with the session of one scan.
SaveProfile ==
  /\ saves.n < MaxSaves
  /\ \E a \in {c.args : c \in SaveCalls} :
     \E sc \in {c.scan : c \in {d \in SaveCalls : d.args = a}} :
       \E session \in {scan_target(a.target, sc.search_types, sc.outcomes, clock)} :
       \E r \in {save_profile(files, a.target, session, a.profile_name, clock, IoOk)} :
           /\ files' = r.files
           /\ ret' = [op |-> "save_profile", target |-> a.target,
                      profile_name |-> a.profile_name, now |-> clock,
                      value |-> r.ret, data |-> r.data]
           /\ saves' = IF IsRaise(r.ret) THEN [saves EXCEPT !.n = @ + 1]
                       ELSE LogSave(profile_file(r.ret), session)
  /\ UNCHANGED <<clock, scan, call>>

\* the names a caller deletes: one that saves store and one that is never stored
DeleteNames == {Str(<<"profile_", "alice">>), S("nosuch")}

DeleteProfile ==
  /\ \E name \in DeleteNames :
       \E r \in {delete_profile(files, name)} :
       /\ files' = r.files
       /\ ret' = [op |-> "delete_profile", profile_name |-> name, value |-> r.ret]
       /\ saves' = [saves EXCEPT
                      !.log = [g \in DOMAIN saves.log \ {profile_file(name)} |-> saves.log[g]]]
  /\ UNCHANGED <<clock, scan, call>>

Next == Tick \/ SaveProfile \/ DeleteProfile

Spec == Init /\ [][Next]_vars

\* the profile stored in file f, as load_profile reads it
Stored(f) == json_loads(files[f])

\* the session-to-profile merge folded over a history, from an empty tree
RECURSIVE FoldHistory(_, _)
FoldHistory(acc, history) ==
  IF history = <<>> THEN acc
  ELSE FoldHistory(_merge_scan_results(acc, Head(history).val["scan_results"]), Tail(history))

\* C2: in every stored profile, current_data is the fold of the scan_results
\* of its scan_history, in order, through the merge from an empty tree.
C2_CurrentDataIsFoldOfHistory ==
  \A f \in DOMAIN files :
    Stored(f).val["current_data"] = FoldHistory(EmptyDict, Stored(f).val["scan_history"].val)

\* C3: after n saves to a profile (no delete in between) its scan_history
\* has n entries, the sessions saved, in save order.
C3_HistoryRecordsEverySave ==
  \A f \in DOMAIN files :
    LET history == Stored(f).val["scan_history"].val IN
    /\ Len(history) = Len(saves.log[f])
    /\ \A i \in 1..Len(history) : history[i].val["scan_results"] = saves.log[f][i]

\* C4: in every stored profile the summary is the summary generator applied
\* to the stored current_data, after a first save and after every merge.
C4_SummaryOfCurrentData ==
  \A f \in DOMAIN files :
    Stored(f).val["summary"] = _generate_summary(Stored(f).val["current_data"])

\* a profile merged from a social and then a breach session
C4_Witness ==
  /\ ret.op = "save_profile"
  /\ profile_file(ret.value) \in DOMAIN files
  /\ Len(saves.log[profile_file(ret.value)]) = 2
  /\ Stored(profile_file(ret.value)).val["summary"].val["social_media_profiles"] = Num(2)
  /\ Stored(profile_file(ret.value)).val["summary"].val["breaches_found"] = Num(1)
  /\ Stored(profile_file(ret.value)).val["summary"].val["total_scans"] = Num(2)

\* C9: save_profile returns the explicit name when one is given and else the
\* name derived from the target, and load_profile of the returned name then
\* gives the very profile record the save computed.
C9_SaveReturnsNameAndRoundTrips ==
  ret.op = "save_profile" /\ ~IsRaise(ret.value) =>
    /\ ret.value = IF ret.profile_name # None /\ ret.profile_name.val # <<>>
                   THEN ret.profile_name
                   ELSE Str(ExpectedName(ret.target, ret.now))
    /\ load_profile(files, ret.value) # None
    /\ load_profile(files, ret.value) = ret.data

\* a merging save under an explicit name, read back
C9_Witness ==
  /\ ret.op = "save_profile"
  /\ ret.profile_name = S("case1") /\ ret.value = S("case1")
  /\ Len(ret.data.val["scan_history"].val) = 1
  /\ load_profile(files, S("case1")) = ret.data

\* the session has a result for search type x alone, and it is completed
OnlyCompleted(session, x) ==
  /\ DOMAIN session.val["results"].val = {x}
  /\ session.val["results"].val[x].val["status"] = S("completed")

\* the count the session reports for search type x
Reported(session, x) ==
  session.val["results"].val[x].val["data"].val["summary"].val[CountKey[x]]

\* C10: after two saves to one profile, the first a completed session for
\* category X only and the second one for another category Y only,
\* current_data holds X and Y and the summary counters of both are the counts
\* their sessions reported.
C10_CategoriesAccumulate ==
  \A f \in DOMAIN files : \A x \in SearchTypes, y \in SearchTypes :
    /\ Len(saves.log[f]) = 2 /\ x # y
    /\ OnlyCompleted(saves.log[f][1], x) /\ OnlyCompleted(saves.log[f][2], y)
    => /\ {x, y} \subseteq DOMAIN Stored(f).val["current_data"].val["results"].val
       /\ Stored(f).val["summary"].val[SummaryField[x]] = Reported(saves.log[f][1], x)
       /\ Stored(f).val["summary"].val[SummaryField[y]] = Reported(saves.log[f][2], y)

C10_Witness ==
  \E f \in DOMAIN files :
    /\ Len(saves.log[f]) = 2
    /\ OnlyCompleted(saves.log[f][1], "breach") /\ OnlyCompleted(saves.log[f][2], "social")
    /\ Stored(f).val["summary"].val["breaches_found"] = Num(1)
    /\ Stored(f).val["summary"].val["social_media_profiles"] = Num(2)
    /\ DOMAIN Stored(f).val["current_data"].val["results"].val = {"social", "breach"}

----------------------------------------------------------------------------
(* SpecSummary: the summary generator, and the first save of a profile,   *)
(* applied to every session of a bounded set.  A session has at most one  *)
(* entry per category of SummaryTypes; "custom" is no known search type.  *)

MaxCount == 2

SummaryTypes == {"social", "breach", "custom"}

\* the key the collector of a category reports its count under
ReportKey(c) == IF c \in SearchTypes THEN CountKey[c] ELSE "total"

\* the data of a collector that reports n items in its "summary" mapping
CountData(c, n) == Dict([summary |-> Dict([k \in {ReportKey(c)} |-> Num(n)])])

\* the data of the same report with the count at the top level
FlatData(c, n) == Dict([k \in {ReportKey(c)} |-> Num(n)])

Completed(data) == Dict([data |-> data, scan_time |-> Num(1), status |-> S("completed")])

Failed(data) == Dict([data |-> data, error |-> S("timeout"), status |-> S("failed")])

SummaryEntries(c) ==
  {Completed(CountData(c, n)) : n \in 1..MaxCount}
    \cup {Completed(FlatData(c, 2)), Completed(EmptyDict), Completed(List(<<>>)),
          Failed(EmptyDict), Failed(CountData(c, 1)), List(<<>>)}

SummarySessions ==
  {Dict([target |-> Alice, scan_time |-> isoformat(0), results |-> Dict(r)]) :
     r \in {q \in PartialFns(SummaryTypes, UNION {SummaryEntries(c) : c \in SummaryTypes}) :
              \A c \in DOMAIN q : q[c] \in SummaryEntries(c)}}

InitSummary ==
  /\ files = NoFiles /\ clock = 0 /\ ret = None /\ saves = NoSaves /\ scan = ScanIdle
  /\ call \in {[fn |-> "input", scan_results |-> x, out |-> None] : x \in SummarySessions}

CallGenerateSummary ==
  /\ call.fn = "input"
  /\ call' = [call EXCEPT !.fn = "_generate_summary",
                          !.out = _generate_summary(call.scan_results)]
  /\ UNCHANGED <<files, clock, ret, saves, scan>>

\* the first save of a profile: the session saved for Alice, no name given,
\* into an empty store
CallSaveProfile ==
  /\ call.fn = "input"
  /\ LET r == save_profile(files, Alice, call.scan_results, None, clock, IoOk) IN
     /\ files' = r.files
     /\ call' = [call EXCEPT !.fn = "save_profile", !.out = r.ret]
  /\ UNCHANGED <<clock, ret, saves, scan>>

NextSummary == CallGenerateSummary \/ CallSaveProfile

SpecSummary == InitSummary /\ [][NextSummary]_vars

\* the "results" of the session a state of SpecSummary is about
SessionResults == call.scan_results.val["results"].val

\* the per-category counters of a summary
Counters == {SummaryField[c] : c \in SearchTypes}

\* C11 (as stated): saving the session whose only result is a completed
\* social entry with data {"found_profiles": 2}, for the target
\* {"username": "alice"} and an empty store, returns "profile_alice" and
\* stores a summary with social_media_profiles = 2 and every other field 0.
C11_FirstSaveFlatCount ==
  /\ call.fn = "save_profile"
  /\ DOMAIN SessionResults = {"social"}
  /\ SessionResults["social"] = Completed(FlatData("social", 2))
  => /\ call.out = Str(<<"profile_", "alice">>)
     /\ LET summary == load_profile(files, call.out).val["summary"].val IN
        /\ summary["social_media_profiles"] = Num(2)
        /\ \A k \in DOMAIN summary \ {"social_media_profiles"} : summary[k] = Num(0)

\* C11 (amended): saving the session whose only result is a completed social
\* entry with data {"summary": {"found_profiles": 2}}, for the target
\* {"username": "alice"} and an empty store, returns "profile_alice" and
\* stores a summary with social_media_profiles = 2, total_scans = 1 and
\* every other counter 0.
C11_FirstSaveSummary ==
  /\ call.fn = "save_profile"
  /\ DOMAIN SessionResults = {"social"}
  /\ SessionResults["social"] = Completed(CountData("social", 2))
  => /\ call.out = Str(<<"profile_", "alice">>)
     /\ LET summary == load_profile(files, call.out).val["summary"].val IN
        /\ DOMAIN summary = Counters \cup {"total_scans"}
        /\ summary["social_media_profiles"] = Num(2)
        /\ summary["total_scans"] = Num(1)
        /\ \A k \in Counters \ {"social_media_profiles"} : summary[k] = Num(0)

C11_Witness ==
  /\ call.fn = "save_profile"
  /\ DOMAIN SessionResults = {"social"}
  /\ SessionResults["social"] = Completed(CountData("social", 2))
  /\ DOMAIN files = {<<"profile_", "alice", ".json">>}
  /\ load_profile(files, call.out).val["summary"].val["social_media_profiles"] = Num(2)

\* the entry of a session's results is a dict whose status is "completed"
IsCompleted(entry) == IsDict(entry) /\ Get(entry, "status", None) = S("completed")

\* the count a completed entry reports for category c: the one under
\* data.summary, 0 when there is none
CountReported(entry, c) ==
  LET data == Get(entry, "data", EmptyDict) IN
  IF "summary" \in DOMAIN data.val /\ ReportKey(c) \in DOMAIN data.val["summary"].val
  THEN data.val["summary"].val[ReportKey(c)]
  ELSE Num(0)

\* C19: a summary has every per-category counter; the counter of a category
\* that is absent from current_data or whose status is not "completed" is 0,
\* and the counter of a completed category is the count it reports.
C19_SummaryShapeAndZeroDefaults ==
  call.fn = "_generate_summary" /\ ~IsRaise(call.out) =>
    /\ Counters \subseteq DOMAIN call.out.val
    /\ \A c \in SearchTypes :
         call.out.val[SummaryField[c]] =
           IF c \in DOMAIN SessionResults /\ IsCompleted(SessionResults[c])
           THEN CountReported(SessionResults[c], c)
           ELSE Num(0)

\* social failed with counts in its data, breach completed
C19_Witness ==
  /\ call.fn = "_generate_summary"
  /\ DOMAIN SessionResults = {"social", "breach"}
  /\ SessionResults["social"] = Failed(CountData("social", 1))
  /\ SessionResults["breach"] = Completed(CountData("breach", 2))
  /\ call.out.val["social_media_profiles"] = Num(0)
  /\ call.out.val["breaches_found"] = Num(2)
  /\ call.out.val["images_found"] = Num(0)

\* current_data without its entry of the unknown category
WithoutCustom ==
  Put(call.scan_results, "results",
      Dict([c \in DOMAIN SessionResults \ {"custom"} |-> SessionResults[c]]))

\* C20 (as stated): the summary of a current_data that has an entry of an
\* unknown category, whatever its status, equals field for field the summary
\* of the current_data without that entry.
C20_UnknownCategoryIgnored ==
  call.fn = "_generate_summary" /\ "custom" \in DOMAIN SessionResults =>
    call.out = _generate_summary(WithoutCustom)

\* C20 (amended): the summary of a current_data that has an entry of an
\* unknown category has the fields of the summary without that entry and
\* the same per-category counters; its total_scans is one higher when the
\* entry is completed and the same otherwise.
C20_UnknownCategoryOnlyCounted ==
  call.fn = "_generate_summary" /\ "custom" \in DOMAIN SessionResults =>
    LET base == _generate_summary(WithoutCustom) IN
    IF IsRaise(base) THEN call.out = base
    ELSE /\ ~IsRaise(call.out)
         /\ DOMAIN call.out.val = DOMAIN base.val
         /\ \A k \in Counters : call.out.val[k] = base.val[k]
         /\ call.out.val["total_scans"].val =
              base.val["total_scans"].val
                + (IF IsCompleted(SessionResults["custom"]) THEN 1 ELSE 0)

\* a completed social entry beside a completed entry of the unknown category
C20_Witness ==
  /\ call.fn = "_generate_summary"
  /\ DOMAIN SessionResults = {"social", "custom"}
  /\ SessionResults["social"] = Completed(CountData("social", 2))
  /\ SessionResults["custom"] = Completed(CountData("custom", 1))
  /\ call.out.val["social_media_profiles"] = Num(2)
  /\ call.out.val["total_scans"] = Num(2)

\* C21: the summary generator is total.  For every current_data, the ones
\* with a completed category whose data or whose data.summary is no mapping
\* included, _generate_summary returns a summary and does not raise.
C21_SummaryGeneratorIsTotal ==
  call.fn = "_generate_summary" =>
    /\ ~IsRaise(call.out)
    /\ DOMAIN call.out.val = Counters \cup {"total_scans"}

----------------------------------------------------------------------------
(* Spec, continued *)

\* C12: when every session saved to a profile is a completed one for the
\* same category alone, the counter of that category in the stored summary
\* is the count the most recent session reported, not the sum of the counts.
C12_CounterIsMostRecent ==
  \A f \in DOMAIN files : \A x \in SearchTypes :
    (\A i \in 1..Len(saves.log[f]) : OnlyCompleted(saves.log[f][i], x))
    => Stored(f).val["summary"].val[SummaryField[x]]
         = Reported(saves.log[f][Len(saves.log[f])], x)

\* social saved twice to one profile, 2 and then 3 profiles found
C12_Witness ==
  \E f \in DOMAIN files :
    /\ Len(saves.log[f]) = 2
    /\ OnlyCompleted(saves.log[f][1], "social") /\ OnlyCompleted(saves.log[f][2], "social")
    /\ Reported(saves.log[f][1], "social") = Num(2)
    /\ Reported(saves.log[f][2], "social") = Num(3)
    /\ Stored(f).val["summary"].val["social_media_profiles"] = Num(3)

\* the names of the records list_profiles returns for the files fs, whatever
\* the order glob yields them in
ListedNames(fs) ==
  UNION {LET listed == list_profiles(fs, glob).val
         IN  {listed[i].val["name"] : i \in 1..Len(listed)} : glob \in Globs(fs)}

\* C17: delete_profile returns true exactly when the name was stored before
\* the call.  After it the name loads as absent and is not listed, and every
\* other profile is as it was; deleting a name that is not stored changes
\* nothing.
C17_DeleteRemovesOnlyThatProfile ==
  [][ret'.op = "delete_profile" /\ ret' # ret =>
       LET name == ret'.profile_name
           f == profile_file(name)
       IN  /\ ret'.value = (f \in DOMAIN files)
           /\ load_profile(files', name) = None
           /\ name \notin ListedNames(files')
           /\ DOMAIN files' = DOMAIN files \ {f}
           /\ \A g \in DOMAIN files' : files'[g] = files[g]
           /\ f \notin DOMAIN files => files' = files]_vars

\* a stored profile was deleted and another one is still stored
C17_Witness ==
  /\ ret.op = "delete_profile"
  /\ ret.profile_name = Str(<<"profile_", "alice">>) /\ ret.value = TRUE
  /\ load_profile(files, ret.profile_name) = None
  /\ ListedNames(files) = {S("case1")}

\* the session has a result for search type x alone, and it is failed
OnlyFailed(session, x) ==
  /\ DOMAIN session.val["results"].val = {x}
  /\ session.val["results"].val[x].val["status"] = S("failed")

\* the data of search type x collected by a sequence of completed sessions
RECURSIVE DataCollected(_, _)
DataCollected(sessions, x) ==
  IF Len(sessions) = 1 THEN sessions[1].val["results"].val[x].val["data"]
  ELSE _merge_data_structures(DataCollected(SubSeq(sessions, 1, Len(sessions) - 1), x),
                              sessions[Len(sessions)].val["results"].val[x].val["data"])

\* C27: a failed rescan erases no data.  When the sessions saved to a
\* profile are completed ones for one category and then a failed one for it,
\* the stored entry still has the data collected before, its status is
\* "failed" and its scan_time is the one of the last completed session.
C27_FailedRescanKeepsData ==
  \A f \in DOMAIN files : \A x \in SearchTypes :
    LET log == saves.log[f]
        n == Len(log)
    IN  /\ n >= 2
        /\ \A i \in 1..(n - 1) : OnlyCompleted(log[i], x)
        /\ OnlyFailed(log[n], x)
        => LET entry == Stored(f).val["current_data"].val["results"].val[x].val IN
           /\ entry["data"] = DataCollected(SubSeq(log, 1, n - 1), x)
           /\ entry["status"] = S("failed")
           /\ entry["scan_time"] = log[n - 1].val["results"].val[x].val["scan_time"]

\* social completed with data and then failed
C27_Witness ==
  \E f \in DOMAIN files :
    /\ Len(saves.log[f]) = 2
    /\ OnlyCompleted(saves.log[f][1], "social") /\ OnlyFailed(saves.log[f][2], "social")
    /\ saves.log[f][2].val["results"].val["social"].val["data"] = EmptyDict
    /\ Stored(f).val["current_data"].val["results"].val["social"].val["data"] = SocialData(2)
    /\ Stored(f).val["current_data"].val["results"].val["social"].val["status"] = S("failed")

\* C28: in every stored profile an entry of current_data has an error field
\* exactly when its status is "failed".
C28_ErrorIffFailed ==
  \A f \in DOMAIN files :
    \A c \in DOMAIN Stored(f).val["current_data"].val["results"].val :
      LET entry == Stored(f).val["current_data"].val["results"].val[c].val IN
      ("error" \in DOMAIN entry) <=> (entry["status"] = S("failed"))

\* the fields a profile is identified by
Identity(profile) ==
  [k \in {"profile_name", "target", "created_at"} |-> profile.val[k]]

----------------------------------------------------------------------------
(* SpecFault: the profile store when writes fail and files get damaged.    *)
(* Every save is of the session of one completed social scan.              *)

\* where json.dump can stop: before the first token and before the last
CutPoints(profile_data) ==
  IF profile_data = None THEN {} ELSE {0, Len(json_dumps(profile_data)) - 1}

\* what damage from outside the program leaves in a file: bytes that do not
\* decode, or a JSON text that is no profile
Damaged == {<<Undecodable>>, json_dumps(List(<<>>))}

\* the names a caller loads
LoadNames == DeleteNames \cup {S("case1")}

\* A save whose write ends in io; ok is the same save with a write that
\* succeeds: it gives the tokens json.dump has to write.
FaultSave ==
  /\ saves.n < MaxSaves
  /\ \E a \in SaveArgs :
       \E session \in {scan_target(a.target, <<"social">>,
                                    [social |-> Returned(SocialData(2), 1)], clock)} :
       \E ok \in {save_profile(files, a.target, session, a.profile_name, clock, IoOk)} :
       \E io \in {IoOk, OpenFails} \cup {DumpFails(k) : k \in CutPoints(ok.data)} :
       \E r \in {save_profile(files, a.target, session, a.profile_name, clock, io)} :
             /\ files' = r.files
             /\ ret' = [op |-> "save_profile", target |-> a.target,
                        profile_name |-> a.profile_name, now |-> clock,
                        value |-> r.ret, data |-> r.data, io |-> io]
  /\ saves' = [saves EXCEPT !.n = @ + 1]
  /\ UNCHANGED <<clock, scan, call>>

\* A stored file is damaged from outside; no call's return value describes
\* the store any more.
DamageFile ==
  /\ \E f \in DOMAIN files : \E content \in Damaged :
       /\ files[f] # content
       /\ files' = [files EXCEPT ![f] = content]
  /\ ret' = [op |-> "none"]
  /\ UNCHANGED <<clock, saves, scan, call>>

LoadProfile ==
  /\ \E name \in LoadNames :
       ret' = [op |-> "load_profile", profile_name |-> name,
               value |-> load_profile(files, name)]
  /\ UNCHANGED <<files, clock, saves, scan, call>>

ListProfiles ==
  /\ \E glob \in Globs(files) :
       ret' = [op |-> "list_profiles", glob |-> glob, value |-> list_profiles(files, glob)]
  /\ UNCHANGED <<files, clock, saves, scan, call>>

NextFault == FaultSave \/ DamageFile \/ LoadProfile \/ ListProfiles \/ Tick

SpecFault == Init /\ [][NextFault]_vars

\* the content is a text that parses as JSON
Parsable(content) ==
  /\ \A i \in 1..Len(content) : content[i].t # Undecodable.t
  /\ ~IsRaise(json_loads(content))

\* the content is a persisted profile
ValidEntry(content) == Parsable(content) /\ IsDict(json_loads(content))

\* C15: load_profile never raises.  It returns None when the name is not
\* stored and when the stored content cannot be parsed, and else the profile
\* exactly as persisted.
C15_LoadNeverRaises ==
  ret.op = "load_profile" =>
    LET f == profile_file(ret.profile_name) IN
    /\ ~IsRaise(ret.value)
    /\ IF f \in DOMAIN files /\ Parsable(files[f])
       THEN json_dumps(ret.value) = files[f]
       ELSE ret.value = None

\* C16: list_profiles never aborts.  It returns one record per valid entry
\* of the store and none for a corrupt one; the record has the name, target
\* and timestamps of the profile and its scan_count is the length of the
\* profile's scan_history.
C16_ListSkipsCorruptEntries ==
  ret.op = "list_profiles" =>
    /\ ~IsRaise(ret.value)
    /\ Len(ret.value.val) = Cardinality({f \in DOMAIN files : ValidEntry(files[f])})
    /\ \A f \in DOMAIN files :
         ValidEntry(files[f]) =>
           \E i \in 1..Len(ret.value.val) :
             LET info == ret.value.val[i].val
                 profile == json_loads(files[f]).val
             IN  /\ info["file_path"] = Str(f)
                 /\ info["name"] = profile["profile_name"]
                 /\ info["target"] = profile["target"]
                 /\ info["created_at"] = profile["created_at"]
                 /\ info["last_updated"] = profile["last_updated"]
                 /\ info["scan_count"] = Num(Len(profile["scan_history"].val))

\* C18: a save whose write fails ends in an exception, and a save that
\* returns a name has left, in the file of that name, the profile it built.
C18_FailedWriteIsSurfaced ==
  ret.op = "save_profile" =>
    /\ ret.io.fails # "none" => IsRaise(ret.value)
    /\ ~IsRaise(ret.value) =>
         /\ profile_file(ret.value) \in DOMAIN files
         /\ files[profile_file(ret.value)] = json_dumps(ret.data)

\* json.dump failed on the second save to a profile: the save raised and the
\* file holds a part of the profile
C18_Witness ==
  /\ ret.op = "save_profile"
  /\ ret.io.fails = "dump" /\ ret.io.cut > 0
  /\ IsRaise(ret.value)
  /\ Len(ret.data.val["scan_history"].val) = 1
  /\ files[<<"case1", ".json">>] # json_dumps(ret.data)
  /\ ~Parsable(files[<<"case1", ".json">>])

\* C29: a save that fails after the profile file was opened for writing
\* leaves every profile that could be loaded before loadable as it was.
C29_FailedSaveKeepsProfile ==
  [][saves'.n # saves.n /\ ret'.io.fails = "dump" =>
       \A name \in LoadNames :
         \E before \in {load_profile(files, name)} :
           before # None => load_profile(files', name) = before]_vars

\* the clock value a timestamp was made from
TimeOf(timestamp) == CHOOSE now \in 0..MaxClock : isoformat(now) = timestamp

\* C22: the records list_profiles returns are ordered by last_updated,
\* newest first: no record has a later last_updated than a record before it.
C22_ListedNewestFirst ==
  ret.op = "list_profiles" /\ ~IsRaise(ret.value) =>
    \A i, j \in 1..Len(ret.value.val) :
      i < j => TimeOf(ret.value.val[i].val["last_updated"])
                 >= TimeOf(ret.value.val[j].val["last_updated"])

\* two profiles saved at different times, listed from a directory that
\* yields the older one first
C22_Witness ==
  /\ ret.op = "list_profiles" /\ ~IsRaise(ret.value)
  /\ Len(ret.value.val) = 2
  /\ ret.value.val[1].val["last_updated"] = isoformat(1)
  /\ ret.value.val[2].val["last_updated"] = isoformat(0)
  /\ ret.value.val[2].val["file_path"] = Str(ret.glob[1])

----------------------------------------------------------------------------
(* SpecConcurrent: two save_profile calls on one profiles directory, each   *)
(* split into the step that builds profile_data (it reads the existing      *)
(* file) and the step that writes the file                                  *)

Savers == {1, 2}

\* the stores the two calls can start from: empty, or left by saves at time 0
StartStores ==
  LET first == scan_target(Bob, <<"social">>, [social |-> Returned(SocialData(2), 1)], 0)
      bob == save_profile(NoFiles, Bob, first, S("case1"), 0, IoOk).files
      alice == save_profile(NoFiles, Alice, first, None, 0, IoOk).files
  IN  {NoFiles, bob, alice, save_profile(bob, Alice, first, None, 0, IoOk).files}

\* the scans whose sessions the two calls save
ConcurrentScans ==
  {[search_types |-> <<"social">>, outcomes |-> [social |-> Returned(SocialData(3), 2)]],
   [search_types |-> <<"breach">>, outcomes |-> [breach |-> Returned(BreachData(1), 1)]]}

\* a call that has not started
SaverStart(a, sc) ==
  [pc |-> "start", args |-> a, scan |-> sc, now |-> 0, session |-> None,
   name |-> None, profile_data |-> None]

\* call.start is the store the two calls found, call.trace the steps taken
InitConcurrent ==
  /\ files \in StartStores
  /\ clock = 0 /\ ret = [op |-> "none"] /\ saves = NoSaves /\ scan = ScanIdle
  /\ call \in {[fn |-> "save_profile", start |-> files, trace |-> <<>>,
                 procs |-> [p \in Savers |-> IF p = 1 THEN SaverStart(a1, sc1)
                                                     ELSE SaverStart(a2, sc2)]] :
                 a1 \in SaveArgs \cup {Retarget}, a2 \in SaveArgs \cup {Retarget},
                 sc1 \in ConcurrentScans, sc2 \in ConcurrentScans}

\* save_profile up to the open(): the name, the new profile_data, the
\* existing profile read from the store as it is now, and their merge
SaverLoad ==
  /\ \E p \in Savers :
       LET me == call.procs[p] IN
       /\ me.pc = "start"
       /\ \E session \in {scan_target(me.args.target, me.scan.search_types,
                                        me.scan.outcomes, clock)} :
          \E name \in {resolve_name(me.args.target, me.args.profile_name, clock)} :
          \E data \in {final_profile_data(files, me.args.target, session, name, clock)} :
            /\ call' = [call EXCEPT
                   !.trace = Append(@, <<p, "load">>),
                   !.procs[p] = [me EXCEPT !.pc = IF IsRaise(data) THEN "done" ELSE "loaded",
                                           !.now = clock, !.session = session,
                                           !.name = name, !.profile_data = data]]
            /\ ret' = IF IsRaise(data)
                       THEN [op |-> "save_profile", target |-> me.args.target,
                             profile_name |-> me.args.profile_name, now |-> clock,
                             value |-> data, data |-> None]
                       ELSE ret
  /\ UNCHANGED <<files, clock, saves, scan>>

\* the open(profile_file, 'w'), the json.dump and the return
SaverWrite ==
  /\ \E p \in Savers :
       LET me == call.procs[p] IN
       /\ me.pc = "loaded"
       /\ files' = write_profile(files, profile_file(me.name), me.profile_data, IoOk).files
       /\ call' = [call EXCEPT !.trace = Append(@, <<p, "write">>),
                               !.procs[p].pc = "done"]
       /\ ret' = [op |-> "save_profile", target |-> me.args.target,
                  profile_name |-> me.args.profile_name, now |-> me.now,
                  value |-> me.name, data |-> me.profile_data]
  /\ UNCHANGED <<clock, saves, scan>>

NextConcurrent == SaverLoad \/ SaverWrite \/ Tick

SpecConcurrent == InitConcurrent /\ [][NextConcurrent]_vars

\* what the call of p leaves when it runs alone on the store the two found
Alone(p) ==
  LET me == call.procs[p] IN
  save_profile(call.start, me.args.target, me.session, me.args.profile_name, me.now, IoOk)

\* C30: saves to different names do not interfere.  When both calls have
\* returned and their names differ, the file of each name is the one its
\* call leaves when it runs alone, and every other file is as it was.
C30_DistinctNamesDoNotInterfere ==
  (/\ \A p \in Savers : call.procs[p].pc = "done"
   /\ call.procs[1].name # call.procs[2].name)
  => /\ \A p \in Savers :
          \E alone \in {Alone(p)} :
            /\ alone.ret = call.procs[p].name
            /\ profile_file(call.procs[p].name) \in DOMAIN files
            /\ files[profile_file(call.procs[p].name)]
                 = alone.files[profile_file(call.procs[p].name)]
     /\ DOMAIN files = DOMAIN call.start \cup {profile_file(call.procs[p].name) : p \in Savers}
     /\ \A f \in DOMAIN call.start :
          f \notin {profile_file(call.procs[p].name) : p \in Savers} => files[f] = call.start[f]

\* both calls read their existing profiles before either wrote, and each
\* name holds its earlier session and the new one
C30_Witness ==
  /\ call.trace = <<<<1, "load">>, <<2, "load">>, <<1, "write">>, <<2, "write">>>>
  /\ call.procs[1].name # call.procs[2].name
  /\ \A p \in Savers :
       /\ profile_file(call.procs[p].name) \in DOMAIN call.start
       /\ Len(Stored(profile_file(call.procs[p].name)).val["scan_history"].val) = 1

\* two interleaved calls under one name: the session of the first writer is
\* not in the file
C30_SameNameLosesSession ==
  /\ call.trace = <<<<1, "load">>, <<2, "load">>, <<1, "write">>, <<2, "write">>>>
  /\ call.procs[1].name = call.procs[2].name
  /\ files[profile_file(call.procs[1].name)] = Alone(2).files[profile_file(call.procs[2].name)]
  /\ files[profile_file(call.procs[1].name)] # Alone(1).files[profile_file(call.procs[1].name)]

====
